---- MODULE Spec2Model ----
(***************************************************************************)
(* A model of the QR encoder in src/src/qr.rs: QR::new (version choice,    *)
(* header and nibble packing, padding), generate_error_correction,         *)
(* place_modules (reserved areas, zig-zag placement, leftover fill) and    *)
(* mask_and_format (eight masks, format overlay, four penalty rules, the   *)
(* choice of the best mask).                                               *)
(*                                                                         *)
(* A grid (Array2D<u8>, row major) is a function from 0 .. size*size-1 to  *)
(* the cell values of the source: 0/1 maskable data, 10/11 reserved        *)
(* light/dark, 2 format area, 3 uninitialised.  Cell (row, col) is at      *)
(* index row*size + col.                                                   *)
(***************************************************************************)
EXTENDS Integers, Sequences, FiniteSets, TLC

VARIABLES
    pc,          \* position in main: new, constructed, ecc, place, placed, masking,
                 \* formatted, done, saved, saved_wrapped, too_long (exit(0) in
                 \* QR::new), panic; or a
                 \* scoring position
    input,       \* the message bytes handed to QR::new
    version,     \* QR.version
    size,        \* QR.size
    data,        \* QR.data (aligned_data)
    payload,     \* QR.payload
    image,       \* QR.image
    x, y,        \* place_modules: the cursor
    x_step, y_step,
    bit_index,   \* place_modules: the next payload bit
    candidates,  \* mask_and_format: the eight masked copies
    penalties,   \* evaluate_masks: the total penalty of each mask
    best,        \* evaluate_masks: the returned index
    masked,      \* QR.masked
    score        \* the result of one penalty rule applied alone

vars == <<pc, input, version, size, data, payload, image, x, y, x_step, y_step,
          bit_index, candidates, penalties, best, masked, score>>

----------------------------------------------------------------------------
(* Bounds of the model *)

\* messages of 0 .. MaxLen bytes are tried, and the long ones of LongLens
MaxLen == 21
\* message contents: kinds 0 .. MaxKind of MessageByte
MaxKind == 1
\* lengths around the end of the ten-entry capacity table
LongLens == {150, 151, 152}
\* the parity bytes the external Reed-Solomon encoder may return
EccKinds == {0, 1}
\* side of the grids the run-length rule is scored on alone
TestSize == 6

----------------------------------------------------------------------------
(* Tables of the source (1-based here, 0-based there) *)

capacity_table == <<11, 20, 32, 46, 60, 74, 86, 108, 130, 151>>
ec_table == <<13, 22, 34, 48, 62, 76, 88, 110, 132, 154>>
blocks_table == <<13, 22>>
format_strings == <<13663, 12392, 16177, 14854, 9396, 8579, 11994, 11245>>

Pow2(n) == IF n = 0 THEN 1 ELSE 2 ^ n

\* get_bit: (value >> offset) & 1
get_bit(offset, value) == (value \div Pow2(offset)) % 2

Abs(n) == IF n < 0 THEN -n ELSE n

----------------------------------------------------------------------------
(* Grids *)

Filled(v, sz) == [i \in 0 .. sz * sz - 1 |-> v]
Row(i, sz) == i \div sz
Col(i, sz) == i % sz
At(img, r, c, sz) == img[r * sz + c]
InGrid(r, c, sz) == r >= 0 /\ c >= 0 /\ r < sz /\ c < sz

----------------------------------------------------------------------------
(* QR::new *)

\* the bytes of a message of n bytes of kind k
MessageByte(i, k) == (65 + k * (182 + 74 * i)) % 256
Message(n, k) == [i \in 1 .. n |-> MessageByte(i - 1, k)]

Inputs == {Message(n, k) : n \in (0 .. MaxLen) \cup LongLens, k \in 0 .. MaxKind}

\* the loop over capacity_table: the first fit, or 0 when none fits
RECURSIVE SelectVersion(_, _)
SelectVersion(v, len) ==
    IF v > Len(capacity_table) THEN 0
    ELSE IF capacity_table[v] > len THEN v
    ELSE SelectVersion(v + 1, len)

\* mode indicator, character count, message
Header(ver, msg) ==
    <<4>> \o (IF ver < 10 THEN <<Len(msg) % 256>>
              ELSE <<(Len(msg) % 65536) \div 256, Len(msg) % 256>>) \o msg

\* (b & 0xF).checked_shl(4).unwrap_or(0) on a u8
ShiftNibble(b) == ((b % 16) * 16) % 256

\* a packing that takes the low nibble of the following byte
AlignedDataLowNibble(d) ==
    [i \in 1 .. Len(d) |->
        IF i = Len(d) THEN ShiftNibble(d[i])
        ELSE ShiftNibble(d[i]) + (d[i + 1] % 16)]

AlignedData(d) ==
    [i \in 1 .. Len(d) |->
        IF i = Len(d) THEN ShiftNibble(d[i])
        ELSE ShiftNibble(d[i]) + (d[i + 1] \div 16)]

\* a padding that starts with 17
PaddingByteSwapped(i) == IF i % 2 = 0 THEN 17 ELSE 236

PaddingByte(i) == IF i % 2 = 0 THEN 236 ELSE 17

Padding(count) == [i \in 1 .. count |-> PaddingByte(i - 1)]

GridSize(ver) == (ver - 1) * 4 + 21

\* QR::new: exit(0) when the selected version is above 2; a panic where the
\* source's usize arithmetic or indexing fails (ec_table[version - 1] at
\* version 0, total_bytes - aligned_data.len() below zero); the object otherwise
New ==
    /\ pc = "new"
    /\ LET ver == SelectVersion(1, Len(input))
           aligned == AlignedData(Header(ver, input))
       IN  IF ver > 2
           THEN /\ pc' = "too_long"
                /\ UNCHANGED <<version, size, data, image, masked>>
           ELSE IF ver - 1 < 0 \/ ec_table[ver] < Len(aligned)
           THEN /\ pc' = "panic"
                /\ UNCHANGED <<version, size, data, image, masked>>
           ELSE /\ pc' = "constructed"
                /\ version' = ver
                /\ size' = GridSize(ver)
                /\ data' = aligned \o Padding(ec_table[ver] - Len(aligned))
                /\ image' = Filled(0, GridSize(ver))
                /\ masked' = Filled(0, GridSize(ver))
    /\ UNCHANGED <<input, payload, x, y, x_step, y_step, bit_index,
                   candidates, penalties, best, score>>

----------------------------------------------------------------------------
(* generate_error_correction *)

\* The parity bytes come from the external reed_solomon encoder: any of a few
\* byte strings of the required length.
EccByte(j, e) == (e * (17 + 29 * j)) % 256
Ecc(count, e) == [j \in 1 .. count |-> EccByte(j - 1, e)]

GenerateErrorCorrection ==
    /\ pc = "constructed"
    /\ \E e \in EccKinds :
          payload' = payload \o data \o Ecc(blocks_table[version], e)
    /\ data' = <<>>
    /\ pc' = "ecc"
    /\ UNCHANGED <<input, version, size, image, x, y, x_step, y_step, bit_index,
                   candidates, penalties, best, masked, score>>

----------------------------------------------------------------------------
(* place_reserved_areas *)

\* the value create_finder_pattern writes at offset (j, k) of a finder
FinderValue(j, k) ==
    IF k = 0 \/ k = 6 THEN 11
    ELSE IF k = 1 \/ k = 5 THEN (IF j = 0 \/ j = 6 THEN 11 ELSE 10)
    ELSE (IF j = 1 \/ j = 5 THEN 10 ELSE 11)

\* create_finder_pattern(x, y): image[(j + x, k + y)] for j, k in 0..7
CreateFinderPattern(img, fx, fy, sz) ==
    [i \in DOMAIN img |->
        LET j == Row(i, sz) - fx
            k == Col(i, sz) - fy
        IN  IF j >= 0 /\ j < 7 /\ k >= 0 /\ k < 7 THEN FinderValue(j, k)
            ELSE img[i]]

\* If the adjacent square is uninitialized, it needs to be blank
BlankIfUninitialized(img, r, c, sz) ==
    IF InGrid(r, c, sz) /\ At(img, r, c, sz) = 3
    THEN [img EXCEPT ![r * sz + c] = 10] ELSE img

\* a separator step that looks at the row below only
InsertSeparatorsBelow(img, r, c, sz) ==
    BlankIfUninitialized(BlankIfUninitialized(img, r + 1, c - 1, sz), r + 1, c + 1, sz)

\* the separator step at a cell holding 11: the cells at offsets k, j in [-1, 1]
InsertSeparators(img, r, c, sz) ==
    BlankIfUninitialized(
        BlankIfUninitialized(
            BlankIfUninitialized(
                BlankIfUninitialized(img, r - 1, c - 1, sz),
                r - 1, c + 1, sz),
            r + 1, c - 1, sz),
        r + 1, c + 1, sz)

\* the format information area at cell (row r, column c)
InFormatArea(r, c, sz) ==
    IF c = 8 THEN r < 9 \/ r > sz - 9
    ELSE IF r = 8 THEN c < 9 \/ c > sz - 9
    ELSE FALSE

InsertFormatArea(img, r, c, sz) ==
    IF InFormatArea(r, c, sz) THEN [img EXCEPT ![r * sz + c] = 2] ELSE img

\* the body of the loop over y and x, in the loop's order
RECURSIVE SeparatorsAndFormatRow(_, _, _, _)
SeparatorsAndFormatRow(img, r, c, sz) ==
    IF c = sz THEN img
    ELSE IF At(img, r, c, sz) = 11
    THEN SeparatorsAndFormatRow(
            InsertFormatArea(InsertSeparators(img, r, c, sz), r, c, sz),
            r, c + 1, sz)
    ELSE SeparatorsAndFormatRow(InsertFormatArea(img, r, c, sz), r, c + 1, sz)

RECURSIVE SeparatorsAndFormat(_, _, _)
SeparatorsAndFormat(img, r, sz) ==
    IF r = sz THEN img
    ELSE SeparatorsAndFormat(SeparatorsAndFormatRow(img, r, 0, sz), r + 1, sz)

AlignmentValue(ay, ax) ==
    IF ay = 0 \/ ay = 4 THEN 11
    ELSE IF ay = 1 \/ ay = 3 THEN (IF ax = 0 \/ ax = 4 THEN 11 ELSE 10)
    ELSE (IF ax = 1 \/ ax = 3 THEN 10 ELSE 11)

AlignmentPattern(img, ver, sz) ==
    IF ver > 1
    THEN [i \in DOMAIN img |->
            LET ay == Row(i, sz) - (sz - 9)
                ax == Col(i, sz) - (sz - 9)
            IN  IF ay >= 0 /\ ay < 5 /\ ax >= 0 /\ ax < 5 THEN AlignmentValue(ay, ax)
                ELSE img[i]]
    ELSE img

TimingValue(n) == IF n % 2 = 0 THEN 11 ELSE 10

VerticalTiming(img, sz) ==
    [i \in DOMAIN img |->
        IF Col(i, sz) = 6 /\ Row(i, sz) >= 8 /\ Row(i, sz) < sz - 7
        THEN TimingValue(Row(i, sz)) ELSE img[i]]

HorizontalTiming(img, sz) ==
    [i \in DOMAIN img |->
        IF Row(i, sz) = 6 /\ Col(i, sz) >= 8 /\ Col(i, sz) < sz - 7
        THEN TimingValue(Col(i, sz)) ELSE img[i]]

DarkModule(img, ver, sz) == [img EXCEPT ![((4 * ver) + 9) * sz + 8] = 11]

PlaceReservedAreas(img, ver, sz) ==
    LET finders == CreateFinderPattern(
                       CreateFinderPattern(
                           CreateFinderPattern(img, 0, 0, sz), sz - 7, 0, sz),
                       0, sz - 7, sz)
        zones == SeparatorsAndFormat(finders, 0, sz)
        aligned == AlignmentPattern(zones, ver, sz)
        timed == HorizontalTiming(VerticalTiming(aligned, sz), sz)
    IN  DarkModule(timed, ver, sz)

\* the grid place_modules starts the placement loop on
ReservedGrid(ver) == PlaceReservedAreas(Filled(3, GridSize(ver)), ver, GridSize(ver))
ReservedGrid1 == ReservedGrid(1)
ReservedGrid2 == ReservedGrid(2)
Reserved(ver) == IF ver = 1 THEN ReservedGrid1 ELSE ReservedGrid2

----------------------------------------------------------------------------
(* place_modules *)

\* entry: the grid is filled with 3, the reserved areas are placed and the
\* cursor starts at the bottom-right corner
PlaceModulesEnter ==
    /\ pc = "ecc"
    /\ image' = PlaceReservedAreas(Filled(3, size), version, size)
    /\ bit_index' = 0
    /\ x' = size - 1
    /\ y' = size - 1
    /\ y_step' = -1
    /\ x_step' = -1
    /\ pc' = "place"
    /\ UNCHANGED <<input, version, size, data, payload, candidates, penalties,
                   best, masked, score>>

\* least-significant bit first
PayloadBitLsbFirst(bytes, index) == get_bit(index % 8, bytes[(index \div 8) + 1])

\* the bit written for bit_index: byte bit_index / 8, bit 7 - bit_index % 8
PayloadBit(bytes, index) == get_bit(7 - (index % 8), bytes[(index \div 8) + 1])

\* a reversal that does not skip the timing column
NextStripNoSkip(col) == col - 2

\* the column after a reversal at the top or bottom edge
NextStrip(col) == IF col = 8 THEN 5 ELSE col - 2

\* one iteration of the while loop.  The cell access image[(y as usize, x as
\* usize)] panics when the cursor is outside the grid.
PlaceStep ==
    /\ pc = "place"
    /\ bit_index < Len(payload) * 8
    /\ IF ~InGrid(y, x, size)
       THEN /\ pc' = "panic"
            /\ UNCHANGED <<image, x, y, x_step, y_step, bit_index>>
       ELSE LET written == At(image, y, x, size) = 3
                x1 == x + x_step
                xs1 == IF x_step = -1 THEN 1 ELSE -1
                y1 == IF x_step = -1 THEN y ELSE y + y_step
                reverse == (y1 = -1 \/ y1 = size) /\ xs1 = -1
            IN  /\ image' = IF written
                            THEN [image EXCEPT ![y * size + x] =
                                                  PayloadBit(payload, bit_index)]
                            ELSE image
                /\ bit_index' = IF written THEN bit_index + 1 ELSE bit_index
                /\ x_step' = xs1
                /\ y_step' = IF reverse THEN -y_step ELSE y_step
                /\ y' = IF reverse THEN (IF y_step = -1 THEN 0 ELSE size - 1) ELSE y1
                /\ x' = IF reverse THEN NextStrip(x1) ELSE x1
                /\ pc' = "place"
    /\ UNCHANGED <<input, version, size, data, payload, candidates, penalties,
                   best, masked, score>>

\* a fill that leaves the leftover space as it is
FillLeftoverSkipped(img) == img

\* Any leftover space becomes 0
FillLeftover(img) == [i \in DOMAIN img |-> IF img[i] = 3 THEN 0 ELSE img[i]]

\* the loop's exit and the rest of place_modules
PlaceModulesExit ==
    /\ pc = "place"
    /\ ~(bit_index < Len(payload) * 8)
    /\ image' = FillLeftover(image)
    /\ pc' = "placed"
    /\ UNCHANGED <<input, version, size, data, payload, x, y, x_step, y_step,
                   bit_index, candidates, penalties, best, masked, score>>

----------------------------------------------------------------------------
(* mask_and_format *)

\* flip: only 0 to 1 and 1 to 0
Flip(v) == IF v = 1 THEN 0 ELSE IF v = 0 THEN 1 ELSE v

\* the conditions with the column and the row exchanged
MaskConditionTransposed(m, cx, cy) ==
    CASE m = 0 -> (cy + cx) % 2 = 0
      [] m = 1 -> cx % 2 = 0
      [] m = 2 -> cy % 3 = 0
      [] m = 3 -> (cy + cx) % 3 = 0
      [] m = 4 -> ((cx \div 2) + (cy \div 3)) % 2 = 0
      [] m = 5 -> ((cy * cx) % 2) + ((cy * cx) % 3) = 0
      [] m = 6 -> (((cy * cx) % 2) + ((cy * cx) % 3)) % 2 = 0
      [] m = 7 -> (((cy + cx) % 2) + ((cy * cx) % 3)) % 2 = 0

\* the condition under which mask m flips the cell at column cx, row cy
MaskCondition(m, cx, cy) ==
    CASE m = 0 -> (cx + cy) % 2 = 0
      [] m = 1 -> cy % 2 = 0
      [] m = 2 -> cx % 3 = 0
      [] m = 3 -> (cx + cy) % 3 = 0
      [] m = 4 -> ((cy \div 2) + (cx \div 3)) % 2 = 0
      [] m = 5 -> ((cx * cy) % 2) + ((cx * cy) % 3) = 0
      [] m = 6 -> (((cx * cy) % 2) + ((cx * cy) % 3)) % 2 = 0
      [] m = 7 -> (((cx + cy) % 2) + ((cx * cy) % 3)) % 2 = 0

\* a revert of the light tag only
RevertLightOnly(v) == IF v = 10 THEN 0 ELSE v

\* Revert 10/11 to 0/1
Revert(v) == IF v = 10 THEN 0 ELSE IF v = 11 THEN 1 ELSE v

\* copy m of the image after the loop over y and x
MaskedCopy(img, m, sz) ==
    [i \in DOMAIN img |->
        Revert(IF MaskCondition(m, Col(i, sz), Row(i, sz)) THEN Flip(img[i])
               ELSE img[i])]

(* generate_format_pattern *)

\* Horizontal pass over row 8: the format-string bit written at each column,
\* -1 where the cell is not 2.  hb is horizontal_bit.
HorizontalBitAt(col, hb, sz) == IF col < sz \div 2 THEN 14 - hb ELSE 15 - hb

RECURSIVE HorizontalBits(_, _, _, _)
HorizontalBits(img, col, hb, sz) ==
    IF col = sz THEN <<>>
    ELSE IF At(img, 8, col, sz) = 2
         THEN <<HorizontalBitAt(col, hb, sz)>> \o HorizontalBits(img, col + 1, hb + 1, sz)
         ELSE <<-1>> \o HorizontalBits(img, col + 1, hb, sz)

\* vertical_bit after a write of bit vb
NextVerticalBit(vb) == IF vb = 7 THEN vb + 2 ELSE vb + 1

\* Vertical pass over column 8: the format-string bit written at each row, -1
\* where the cell is not 2.  vb is vertical_bit.
RECURSIVE VerticalBits(_, _, _, _)
VerticalBits(img, row, vb, sz) ==
    IF row = sz THEN <<>>
    ELSE IF At(img, row, 8, sz) = 2
         THEN <<vb>> \o VerticalBits(img, row + 1, NextVerticalBit(vb), sz)
         ELSE <<-1>> \o VerticalBits(img, row + 1, vb, sz)

HorizontalFormat(img, fmt, sz) ==
    LET bits == HorizontalBits(img, 0, 0, sz)
    IN  [i \in DOMAIN img |->
            IF Row(i, sz) = 8 /\ bits[Col(i, sz) + 1] # -1
            THEN get_bit(bits[Col(i, sz) + 1], fmt) ELSE img[i]]

VerticalFormat(img, fmt, sz) ==
    LET bits == VerticalBits(img, 0, 0, sz)
    IN  [i \in DOMAIN img |->
            IF Col(i, sz) = 8 /\ bits[Row(i, sz) + 1] # -1
            THEN get_bit(bits[Row(i, sz) + 1], fmt) ELSE img[i]]

\* the format pattern of mask m laid over its copy
GenerateFormatPattern(img, m, sz) ==
    VerticalFormat(HorizontalFormat(img, format_strings[m + 1], sz),
                   format_strings[m + 1], sz)

----------------------------------------------------------------------------
(* evaluate_masks *)

\* Evaluation 1.  The scan state is <<current_color, run_length, penalty>>.
RunPenalty(run_length) == IF run_length >= 5 THEN 3 + (run_length - 5) ELSE 0

\* a line end that drops the run that ends at the edge
ScanLineEndNoEdge(st) == <<2, 0, st[3]>>

\* after the inner loop: the run that ends at the edge, then the reset
ScanLineEnd(st) == <<2, 0, st[3] + RunPenalty(st[2])>>

\* the cell at position pos of line n: row n when horizontal, column n otherwise
LineCell(mask, n, pos, horizontal, sz) ==
    IF horizontal THEN At(mask, n, pos, sz) ELSE At(mask, pos, n, sz)

\* the inner loop from position pos on
RECURSIVE ScanLine(_, _, _, _, _, _)
ScanLine(mask, n, pos, st, horizontal, sz) ==
    IF pos = sz THEN ScanLineEnd(st)
    ELSE IF st[1] # LineCell(mask, n, pos, horizontal, sz)
    THEN ScanLine(mask, n, pos + 1,
                  <<LineCell(mask, n, pos, horizontal, sz), 1,
                    st[3] + RunPenalty(st[2])>>,
                  horizontal, sz)
    ELSE ScanLine(mask, n, pos + 1, <<st[1], st[2] + 1, st[3]>>, horizontal, sz)

\* the scan state after the first n lines (the outer loop), entered with st0
RECURSIVE ScanLines(_, _, _, _, _)
ScanLines(mask, n, st0, horizontal, sz) ==
    IF n = 0 THEN st0
    ELSE ScanLine(mask, n - 1, 0, ScanLines(mask, n - 1, st0, horizontal, sz),
                  horizontal, sz)

\* horizontal runs, then vertical runs entered with the current_color and
\* run_length the horizontal scan left; the penalties add up
Rule1(mask, sz) ==
    LET horizontal == ScanLines(mask, sz, <<2, 0, 0>>, TRUE, sz)
    IN  horizontal[3]
          + ScanLines(mask, sz, <<horizontal[1], horizontal[2], 0>>, FALSE, sz)[3]

\* Evaluation 2: 2x2 blocks of the same color
Rule2(mask, sz) ==
    3 * Cardinality({i \in DOMAIN mask :
            /\ Row(i, sz) < sz - 1
            /\ Col(i, sz) < sz - 1
            /\ mask[i + sz] = mask[i]
            /\ mask[i + 1] = mask[i]
            /\ mask[i + sz + 1] = mask[i]})

\* Evaluation 3: the two patterns, horizontally and vertically
pattern_a == <<1, 0, 1, 1, 1, 0, 1, 0, 0, 0, 0>>
pattern_b == <<0, 0, 0, 0, 1, 0, 1, 1, 1, 0, 1>>

MatchesAt(mask, r, c, horizontal, pattern, sz) ==
    \A k \in 1 .. 11 :
        (IF horizontal THEN At(mask, r, c + k - 1, sz) ELSE At(mask, r + k - 1, c, sz))
            = pattern[k]

Rule3(mask, sz) ==
    40 * ( Cardinality({i \in DOMAIN mask :
                /\ Col(i, sz) < sz - 10
                /\ \/ MatchesAt(mask, Row(i, sz), Col(i, sz), TRUE, pattern_a, sz)
                   \/ MatchesAt(mask, Row(i, sz), Col(i, sz), TRUE, pattern_b, sz)})
         + Cardinality({i \in DOMAIN mask :
                /\ Row(i, sz) < sz - 10
                /\ \/ MatchesAt(mask, Row(i, sz), Col(i, sz), FALSE, pattern_a, sz)
                   \/ MatchesAt(mask, Row(i, sz), Col(i, sz), FALSE, pattern_b, sz)}) )

\* Evaluation 4.  dark_modules is the sum of the cell values.
RECURSIVE SumRow(_, _, _, _)
SumRow(mask, r, c, sz) ==
    IF c = sz THEN 0 ELSE At(mask, r, c, sz) + SumRow(mask, r, c + 1, sz)

RECURSIVE SumRows(_, _, _)
SumRows(mask, r, sz) ==
    IF r = sz THEN 0 ELSE SumRow(mask, r, 0, sz) + SumRows(mask, r + 1, sz)

DarkModules(mask, sz) == SumRows(mask, 0, sz)

(* f32 arithmetic on positive values m * 2^e with a 24-bit significand m,
   rounded to nearest, ties to even *)
RECURSIVE NumeratorShift(_, _)
NumeratorShift(n, d) == IF n >= d THEN 0 ELSE 1 + NumeratorShift(2 * n, d)

RECURSIVE DenominatorShift(_, _)
DenominatorShift(n, d) == IF n < 2 * d THEN 0 ELSE 1 + DenominatorShift(n, 2 * d)

\* steps more quotient bits of a quotient m with remainder r over d
RECURSIVE LongDivision(_, _, _, _)
LongDivision(m, r, d, steps) ==
    IF steps = 0 THEN <<m, r>>
    ELSE IF 2 * r >= d THEN LongDivision(2 * m + 1, 2 * r - d, d, steps - 1)
    ELSE LongDivision(2 * m, 2 * r, d, steps - 1)

\* m + r/d rounded to an integer, ties to even
RoundTiesEven(m, r, d) ==
    IF 2 * r > d THEN m + 1
    ELSE IF 2 * r < d THEN m
    ELSE IF m % 2 = 1 THEN m + 1 ELSE m

\* n as f32 / d as f32, for 0 < n and 0 < d below 2^20: <<m, e>>
F32Div(n, d) ==
    LET a == NumeratorShift(n, d)
        n0 == n * Pow2(a)
        b == DenominatorShift(n0, d)
        d0 == d * Pow2(b)
        q == LongDivision(1, n0 - d0, d0, 23)
    IN  <<RoundTiesEven(q[1], q[2], d0), b - a - 23>>

\* f * 100.0, for a significand of f in 2^23 .. 2^24
F32Mul100(f) ==
    LET product == f[1] * 100
        drop == IF product >= Pow2(30) THEN 7 ELSE 6
    IN  <<RoundTiesEven(product \div Pow2(drop), product % Pow2(drop), Pow2(drop)),
          f[2] + drop>>

\* f as isize: truncation
F32ToInt(f) ==
    IF f[2] >= 0 THEN f[1] * Pow2(f[2])
    ELSE IF -f[2] > 30 THEN 0
    ELSE f[1] \div Pow2(-f[2])

\* a percentage rounded to the nearest integer instead of truncated
PercentageDarkRounded(dark, total) == (dark * 100 + total \div 2) \div total

\* ((dark_modules as f32 / total_modules as f32) * 100.0) as isize
PercentageDark(dark, total) ==
    IF dark = 0 THEN 0 ELSE F32ToInt(F32Mul100(F32Div(dark, total)))

PreviousMultiple(p) == p - (p % 5)
NextMultiple(p) == p + (5 - (p % 5))

Min2(a, b) == IF b < a THEN b ELSE a

Rule4Of(p) ==
    Min2(Abs(PreviousMultiple(p) - 50) \div 5, Abs(NextMultiple(p) - 50) \div 5) * 10

Rule4(mask, sz) == Rule4Of(PercentageDark(DarkModules(mask, sz), sz * sz))

TotalPenalty(mask, sz) ==
    Rule1(mask, sz) + Rule2(mask, sz) + Rule3(mask, sz) + Rule4(mask, sz)

\* min_by over the enumerated penalties: the later element replaces the kept
\* one only when the kept one compares Greater
\* a comparison that lets a later equal penalty replace the kept one
KeepLaterOnTie(kept, later) == kept >= later

KeepLater(kept, later) == kept > later

RECURSIVE MinBy(_, _, _)
MinBy(pen, i, kept) ==
    IF i > 7 THEN kept
    ELSE MinBy(pen, i + 1, IF KeepLater(pen[kept], pen[i]) THEN i ELSE kept)

BestCodeIndex(pen) == MinBy(pen, 1, 0)

\* mask_and_format, first part: the eight copies, flipped by their masks, with
\* 10/11 reverted to 0/1
MaskCopies ==
    /\ pc = "placed"
    /\ candidates' = [m \in 0 .. 7 |-> MaskedCopy(image, m, size)]
    /\ pc' = "masking"
    /\ UNCHANGED <<input, version, size, data, payload, image, x, y, x_step,
                   y_step, bit_index, penalties, best, masked, score>>

\* mask_and_format, second part: the call of generate_format_pattern
FormatCopies ==
    /\ pc = "masking"
    /\ candidates' = [m \in 0 .. 7 |-> GenerateFormatPattern(candidates[m], m, size)]
    /\ pc' = "formatted"
    /\ UNCHANGED <<input, version, size, data, payload, image, x, y, x_step,
                   y_step, bit_index, penalties, best, masked, score>>

\* mask_and_format, last part: the call of evaluate_masks and the copy of the
\* best mask to self.masked
EvaluateAndCopy ==
    /\ pc = "formatted"
    /\ penalties' = [m \in 0 .. 7 |-> TotalPenalty(candidates[m], size)]
    /\ best' = BestCodeIndex(penalties')
    /\ masked' = candidates[best']
    /\ pc' = "done"
    /\ UNCHANGED <<input, version, size, data, payload, image, x, y, x_step,
                   y_step, bit_index, candidates, score>>

----------------------------------------------------------------------------
(* save_image *)

\* the pixel of a module: (1 - masked) * 255 on u8, defined for 0 and 1 only
PixelDefined(v) == v <= 1

\* save_image, called by main when a path is given.  1 - masked[..] on u8
\* underflows at a value above 1: a panic in a debug build, a wrapped pixel
\* value in a release build.
SaveImage ==
    /\ pc = "done"
    /\ IF \A i \in DOMAIN masked : PixelDefined(masked[i])
       THEN pc' = "saved"
       ELSE pc' \in {"panic", "saved_wrapped"}
    /\ UNCHANGED <<input, version, size, data, payload, image, x, y, x_step,
                   y_step, bit_index, candidates, penalties, best, masked, score>>

----------------------------------------------------------------------------
(* The program: main calls QR::new, generate and, given a path, save_image *)

NoGrid == <<>>

Init ==
    /\ pc = "new"
    /\ input \in Inputs
    /\ version = 0
    /\ size = 0
    /\ data = <<>>
    /\ payload = <<>>
    /\ image = NoGrid
    /\ x = 0
    /\ y = 0
    /\ x_step = 0
    /\ y_step = 0
    /\ bit_index = 0
    /\ candidates = <<>>
    /\ penalties = <<>>
    /\ best = 0
    /\ masked = NoGrid
    /\ score = 0

Next ==
    \/ New
    \/ GenerateErrorCorrection
    \/ PlaceModulesEnter
    \/ PlaceStep
    \/ PlaceModulesExit
    \/ MaskCopies
    \/ FormatCopies
    \/ EvaluateAndCopy
    \/ SaveImage

Spec == Init /\ [][Next]_vars

----------------------------------------------------------------------------
(* Evaluation 1 of evaluate_masks applied alone to grids of side TestSize whose
   cell (row r, column c) is rows[r] + cols[c] modulo 2 *)

Bits(n) == [0 .. n - 1 -> {0, 1}]

CrossGrid(rows, cols, sz) ==
    [i \in 0 .. sz * sz - 1 |-> (rows[Row(i, sz)] + cols[Col(i, sz)]) % 2]

InitRule1 ==
    /\ pc = "rule1"
    /\ size = TestSize
    /\ masked \in {CrossGrid(rows, cols, TestSize) :
                      rows \in Bits(TestSize), cols \in Bits(TestSize)}
    /\ input = <<>>
    /\ version = 0
    /\ data = <<>>
    /\ payload = <<>>
    /\ image = NoGrid
    /\ x = 0
    /\ y = 0
    /\ x_step = 0
    /\ y_step = 0
    /\ bit_index = 0
    /\ candidates = <<>>
    /\ penalties = <<>>
    /\ best = 0
    /\ score = 0

ScoreRule1 ==
    /\ pc = "rule1"
    /\ score' = Rule1(masked, size)
    /\ pc' = "rule1_scored"
    /\ UNCHANGED <<input, version, size, data, payload, image, x, y, x_step,
                   y_step, bit_index, candidates, penalties, best, masked>>

SpecRule1 == InitRule1 /\ [][ScoreRule1]_vars

(* Evaluation 4 of evaluate_masks applied alone to the grids of both versions
   with any number of dark modules *)

DarkPrefix(dark, sz) == [i \in 0 .. sz * sz - 1 |-> IF i < dark THEN 1 ELSE 0]

InitRule4 ==
    /\ pc = "rule4"
    /\ size \in {GridSize(1), GridSize(2)}
    /\ masked \in {DarkPrefix(dark, size) : dark \in 0 .. size * size}
    /\ input = <<>>
    /\ version = 0
    /\ data = <<>>
    /\ payload = <<>>
    /\ image = NoGrid
    /\ x = 0
    /\ y = 0
    /\ x_step = 0
    /\ y_step = 0
    /\ bit_index = 0
    /\ candidates = <<>>
    /\ penalties = <<>>
    /\ best = 0
    /\ score = 0

ScoreRule4 ==
    /\ pc = "rule4"
    /\ score' = Rule4(masked, size)
    /\ pc' = "rule4_scored"
    /\ UNCHANGED <<input, version, size, data, payload, image, x, y, x_step,
                   y_step, bit_index, candidates, penalties, best, masked>>

SpecRule4 == InitRule4 /\ [][ScoreRule4]_vars

----------------------------------------------------------------------------
(* The order in which the standard zig-zag visits the cells: strips of two
   columns from the right edge, column 6 left out, the first strip upward and
   each next one reversed, the right cell of a strip before the left one *)

\* the right column of strip s (from 1): size-1, size-3, .., 8, then 5, 3, 1
StripColumn(s, sz) ==
    IF s <= (sz - 7) \div 2 THEN sz - 1 - 2 * (s - 1)
    ELSE 5 - 2 * (s - (sz - 7) \div 2 - 1)

StripCount(sz) == (sz - 7) \div 2 + 3

ZigZagOrder(sz) ==
    [p \in 1 .. 2 * sz * StripCount(sz) |->
        LET s == (p - 1) \div (2 * sz) + 1
            t == ((p - 1) % (2 * sz)) \div 2
            r == IF s % 2 = 1 THEN sz - 1 - t ELSE t
            c == StripColumn(s, sz) - ((p - 1) % 2)
        IN  r * sz + c]

IsUnwrittenIn1(i) == ReservedGrid1[i] = 3
IsUnwrittenIn2(i) == ReservedGrid2[i] = 3

\* the cells the reserved areas leave uninitialised, in zig-zag order
DataCells1 == SelectSeq(ZigZagOrder(GridSize(1)), IsUnwrittenIn1)
DataCells2 == SelectSeq(ZigZagOrder(GridSize(2)), IsUnwrittenIn2)
DataCells(ver) == IF ver = 1 THEN DataCells1 ELSE DataCells2

\* no cell is twice in the order
DataCellsDistinct ==
    /\ Cardinality({DataCells1[k] : k \in 1 .. Len(DataCells1)}) = Len(DataCells1)
    /\ Cardinality({DataCells2[k] : k \in 1 .. Len(DataCells2)}) = Len(DataCells2)

Constructed ==
    pc \in {"constructed", "ecc", "place", "placed", "masking", "formatted", "done",
            "saved", "saved_wrapped"}
Placed == pc \in {"placed", "masking", "formatted", "done", "saved", "saved_wrapped"}

----------------------------------------------------------------------------
(* Claims *)

\* C1: the version and the grid size follow from the message length alone: a
\* message of at most capacity(1) = 11 bytes gives version 1 and a 21x21 grid,
\* one of more than capacity(1) and at most capacity(2) = 20 bytes gives
\* version 2 and a 25x25 grid, the 21-byte message too, and in every case
\* size = 4*(version-1)+21.
C1_VersionFromLength ==
    pc # "new" =>
        /\ Len(input) <= capacity_table[1]
              => (Constructed /\ version = 1 /\ size = 21)
        /\ (capacity_table[1] < Len(input) /\ Len(input) <= capacity_table[2])
              => (Constructed /\ version = 2 /\ size = 25)
        /\ Len(input) = 21 => (Constructed /\ version = 2 /\ size = 25)
        /\ Constructed => size = 4 * (version - 1) + 21

\* C2: a message for which no version up to 2 has capacity(v) > length, every
\* message of more than 151 bytes among them, ends QR::new in the "Message is
\* too long" exit, before any packing, table lookup or grid construction, and in
\* no other outcome.
C2_TooLongExit ==
    (pc # "new" /\ \A v \in 1 .. 2 : ~(capacity_table[v] > Len(input)))
        => (pc = "too_long" /\ data = <<>> /\ image = NoGrid /\ masked = NoGrid)

\* C3: for every accepted message the data bytes built by QR::new number
\* exactly 13 for version 1 and 22 for version 2; the packed header and message
\* (length + 2 bytes) are never longer than that, and the rest is padding that
\* alternates 0xEC, 0x11, 0xEC, .. from 0xEC.
C3_DataLength ==
    pc = "constructed" =>
        LET packed == Len(input) + 2
            total == IF version = 1 THEN 13 ELSE 22
        IN  /\ version \in {1, 2}
            /\ packed <= total
            /\ Len(data) = total
            /\ \A j \in 1 .. total - packed :
                  data[packed + j] = (IF j % 2 = 1 THEN 236 ELSE 17)

\* a version-2 object whose data end in at least three padding bytes
C3_Witness ==
    /\ pc = "constructed"
    /\ version = 2
    /\ Len(data) - (Len(input) + 2) >= 3

\* C4: once place_modules has returned no cell of the grid is 3: every cell the
\* reserved areas left uninitialised holds a payload bit, or 0 when no payload
\* bit reached it, and the final masked grid holds no 3 either.
C4_NoUnwritten ==
    /\ Placed =>
          /\ \A i \in DOMAIN image : image[i] # 3
          /\ \A k \in 1 .. Len(DataCells(version)) :
                IF k <= Len(payload) * 8
                THEN image[DataCells(version)[k]] \in {0, 1}
                ELSE image[DataCells(version)[k]] = 0
    /\ pc = "done" => \A i \in DOMAIN masked : masked[i] # 3

\* a finished version-2 symbol, where seven cells are reached by no payload bit
C4_Witness ==
    /\ pc = "done"
    /\ version = 2
    /\ Len(DataCells(version)) = Len(payload) * 8 + 7

\* C5: evaluate_masks returns a mask whose total penalty is the least of the
\* eight, the smallest such mask id when several share it, and mask_and_format
\* makes that candidate's grid the final masked grid.
C5_BestMask ==
    pc = "done" =>
        /\ best \in 0 .. 7
        /\ \A m \in 0 .. 7 : penalties[best] <= penalties[m]
        /\ \A m \in 0 .. 7 : m < best => penalties[m] # penalties[best]
        /\ masked = candidates[best]

\* a finished symbol where two masks share the least penalty
C5_Witness ==
    /\ pc = "done"
    /\ \E m \in 0 .. 7 : m # best /\ penalties[m] = penalties[best]
    /\ masked = candidates[best]

(* The runs of a line, counted from their first cells *)

\* line n of the grid as a sequence: row n, or column n
GridLine(mask, n, horizontal, sz) ==
    [k \in 1 .. sz |-> IF horizontal THEN At(mask, n, k - 1, sz)
                       ELSE At(mask, k - 1, n, sz)]

\* a maximal run of identical modules starts at a and ends at b
IsMaximalRun(line, a, b) ==
    /\ a <= b
    /\ \A k \in a .. b : line[k] = line[a]
    /\ (a = 1 \/ line[a - 1] # line[a])
    /\ (b = Len(line) \/ line[b + 1] # line[b])

MaximalRuns(line) ==
    {ab \in (1 .. Len(line)) \X (1 .. Len(line)) : IsMaximalRun(line, ab[1], ab[2])}

\* 3 + (L - 5) for each maximal run of L >= 5: each unit of it is one element
RunCost(line) ==
    Cardinality({abu \in MaximalRuns(line) \X (1 .. Len(line)) :
                    /\ abu[1][2] - abu[1][1] + 1 >= 5
                    /\ abu[2] <= 3 + (abu[1][2] - abu[1][1] + 1 - 5)})

RECURSIVE LinesCost(_, _, _, _)
LinesCost(mask, n, horizontal, sz) ==
    IF n = 0 THEN 0
    ELSE RunCost(GridLine(mask, n - 1, horizontal, sz))
            + LinesCost(mask, n - 1, horizontal, sz)

AllDark(line) == \A k \in 1 .. Len(line) : line[k] = 1

\* C6: rule 1 adds 3 + (L - 5) for every maximal run of L >= 5 identical
\* modules of a row and of a column, runs that end at the edge included, and
\* nothing for shorter runs; no run continues into the next row or column; an
\* all-dark row of length len >= 5 adds exactly 3 + (len - 5) to the horizontal
\* scan.
C6_RunLengthPenalty ==
    pc = "rule1_scored" =>
        /\ score = LinesCost(masked, size, TRUE, size)
                     + LinesCost(masked, size, FALSE, size)
        /\ \A n \in 0 .. size - 1 :
              (size >= 5 /\ AllDark(GridLine(masked, n, TRUE, size)))
                 => /\ ScanLine(masked, n, 0, <<2, 0, 0>>, TRUE, size)[3]
                         = 3 + (size - 5)
                    /\ RunCost(GridLine(masked, n, TRUE, size)) = 3 + (size - 5)

\* a scored grid with an all-dark row and a column whose run of size - 1
\* identical modules ends at the bottom edge
C6_Witness ==
    /\ pc = "rule1_scored"
    /\ \E n \in 0 .. size - 1 : AllDark(GridLine(masked, n, TRUE, size))
    /\ \E n \in 0 .. size - 1 :
          IsMaximalRun(GridLine(masked, n, FALSE, size), 2, size)
    /\ score > 0

\* C7: rule 4 is min(|prev-50|, |next-50|)/5*10 with p the truncated integer
\* percentage of dark modules, prev = p - p mod 5 and next = p + (5 - p mod 5),
\* for every p in 0..100; it is a non-negative multiple of 10, and 0 when
\* exactly half of the modules are dark.
C7_DarkRatioPenalty ==
    pc = "rule4_scored" =>
        LET dark == Cardinality({i \in DOMAIN masked : masked[i] = 1})
            total == size * size
            p == (dark * 100) \div total
            prev == p - (p % 5)
            next == p + (5 - (p % 5))
            least == IF Abs(prev - 50) <= Abs(next - 50) THEN Abs(prev - 50)
                     ELSE Abs(next - 50)
        IN  /\ p \in 0 .. 100
            /\ score = (least \div 5) * 10
            /\ score >= 0
            /\ score % 10 = 0
            /\ 2 * dark = total => score = 0

\* a scored grid whose truncated percentage of dark modules is 50
C7_Witness ==
    /\ pc = "rule4_scored"
    /\ (Cardinality({i \in DOMAIN masked : masked[i] = 1}) * 100) \div (size * size) = 50
    /\ score = 0

\* bit n of the format string of mask m
FormatBit(m, n) == (format_strings[m + 1] \div (2 ^ n)) % 2

\* C8: for each of the 8 masks the vertical pass over column 8 writes the
\* format bits in increasing order from the top row down and never writes bit
\* 7: rows 0..5 and 7 receive bits 0..6 and rows size-7..size-1 receive bits
\* 8..14; the horizontal pass puts bits 14..7 at columns 0..5, 7, 8 and bits
\* 7..0 at columns size-8..size-1 of row 8, so that every bit 0..14 is in both
\* copies of the format information.
C8_FormatBits ==
    /\ pc = "masking" =>
          \A m \in 0 .. 7 :
              LET written == VerticalBits(
                                 HorizontalFormat(candidates[m], format_strings[m + 1], size),
                                 0, 0, size)
              IN  /\ \A r \in 0 .. size - 1 : written[r + 1] # 7
                  /\ \A r \in 0 .. 5 : written[r + 1] = r
                  /\ written[7 + 1] = 6
                  /\ \A j \in 0 .. 6 : written[size - 7 + j + 1] = 8 + j
    /\ pc \in {"formatted", "done"} =>
          \A m \in 0 .. 7 :
              /\ \A r \in 0 .. 5 : At(candidates[m], r, 8, size) = FormatBit(m, r)
              /\ At(candidates[m], 7, 8, size) = FormatBit(m, 6)
              /\ \A j \in 0 .. 6 :
                    At(candidates[m], size - 7 + j, 8, size) = FormatBit(m, 8 + j)
              /\ \A c \in 0 .. 5 : At(candidates[m], 8, c, size) = FormatBit(m, 14 - c)
              /\ At(candidates[m], 8, 7, size) = FormatBit(m, 8)
              /\ At(candidates[m], 8, 8, size) = FormatBit(m, 7)
              /\ \A j \in 0 .. 7 :
                    At(candidates[m], 8, size - 8 + j, size) = FormatBit(m, 7 - j)

\* the number of cells of the zig-zag order from the cursor on: 0 once the
\* cursor has left the grid, and more than all of them at a cell off the order
ZigZagPosition(sz) ==
    LET order == ZigZagOrder(sz)
        position == [i \in 0 .. sz * sz - 1 |->
                        LET at == {p \in 1 .. Len(order) : order[p] = i}
                        IN  IF at = {} THEN 0 ELSE CHOOSE p \in at : TRUE]
    IN  [position EXCEPT ![0] = position[0]]

ZigZagPosition1 == ZigZagPosition(GridSize(1))
ZigZagPosition2 == ZigZagPosition(GridSize(2))

CellsAhead(r, c, sz) ==
    IF ~InGrid(r, c, sz) THEN 0
    ELSE LET position == IF sz = GridSize(1) THEN ZigZagPosition1 ELSE ZigZagPosition2
             cells == 2 * sz * StripCount(sz)
         IN  IF position[r * sz + c] = 0 THEN cells + 1
             ELSE cells + 1 - position[r * sz + c]

\* C9: the placement loop ends for both versions with the whole payload (26
\* and 44 bytes) placed: it stops exactly when bit_index = payload length * 8,
\* at every cell access before that the cursor is inside the grid, and the
\* reserved areas leave at least as many uninitialised cells as payload bits.
\* Every iteration moves the cursor one cell on along the zig-zag order, so the
\* loop makes at most as many iterations as the order has cells.
C9_PlacementTerminates ==
    /\ [](pc = "place" =>
            /\ Len(payload) = (IF version = 1 THEN 26 ELSE 44)
            /\ bit_index <= Len(payload) * 8
            /\ bit_index < Len(payload) * 8 => InGrid(y, x, size)
            /\ Len(DataCells(version)) >= Len(payload) * 8)
    /\ [](Placed => bit_index = Len(payload) * 8)
    /\ [](pc = "panic" => ~(version \in {1, 2}))
    /\ [][pc = "place" => pc' \in {"place", "placed"}]_vars
    /\ [][(pc = "place" /\ pc' = "place")
            => CellsAhead(y', x', size) = CellsAhead(y, x, size) - 1]_vars

\* a version-2 placement that has ended with all 352 bits placed
C9_Witness ==
    /\ pc = "placed"
    /\ version = 2
    /\ bit_index = 44 * 8

\* bit k (from 0) of the payload, most significant bit of each byte first
PayloadBitMsbFirst(k) == (payload[(k \div 8) + 1] \div (2 ^ (7 - (k % 8)))) % 2

\* C10: a payload bit is consumed only at a cell that is uninitialised when
\* visited: the k-th uninitialised cell along the traversal (from the
\* bottom-right corner, the right cell of each strip first) receives payload
\* bit k, most significant bit first, as 1/0; reserved and format cells stay as
\* they are and consume no bit, so each bit is in exactly one cell and no cell
\* receives two bits.
C10_BitPlacement ==
    (pc = "place" \/ Placed) =>
        LET cells == DataCells(version)
        IN  /\ bit_index <= Len(cells)
            /\ \A k \in 1 .. Len(cells) :
                  image[cells[k]] =
                      (IF k <= bit_index THEN PayloadBitMsbFirst(k - 1)
                       ELSE IF pc = "place" THEN 3 ELSE 0)
            /\ \A i \in DOMAIN image :
                  Reserved(version)[i] # 3 => image[i] = Reserved(version)[i]
            /\ DataCellsDistinct

\* a placement under way that has just passed over reserved cells without
\* consuming a bit, and holds both a 1 and a 0 of the payload
C10_Witness ==
    /\ pc = "place"
    /\ bit_index > 8
    /\ bit_index < Len(payload) * 8
    /\ InGrid(y, x, size)
    /\ At(image, y, x, size) \in {2, 10, 11}
    /\ \E k \in 1 .. bit_index : image[DataCells(version)[k]] = 1
    /\ \E k \in 1 .. bit_index : image[DataCells(version)[k]] = 0

\* the mask patterns 000 .. 111 of the QR code standard at row i, column j
CanonicalMask(m, i, j) ==
    CASE m = 0 -> (i + j) % 2 = 0
      [] m = 1 -> i % 2 = 0
      [] m = 2 -> j % 3 = 0
      [] m = 3 -> (i + j) % 3 = 0
      [] m = 4 -> ((i \div 2) + (j \div 3)) % 2 = 0
      [] m = 5 -> ((i * j) % 2) + ((i * j) % 3) = 0
      [] m = 6 -> (((i * j) % 2) + ((i * j) % 3)) % 2 = 0
      [] m = 7 -> (((i * j) % 3) + ((i + j) % 2)) % 2 = 0

Masked == pc \in {"masking", "formatted", "done", "saved", "saved_wrapped"}

\* C11: for every mask m and every cell, candidate m holds a data cell (0/1)
\* of the placed grid inverted exactly when the standard's predicate of mask m
\* is true at the cell and unchanged otherwise; it holds a reserved cell
\* (10/11) as the same 0/1 in all eight candidates; a format cell (2) is not
\* flipped and stays 2 until the format overlay.  self.image is not modified,
\* and each candidate depends on its own mask only.
C11_MaskFrame ==
    /\ [](Masked =>
            \A m \in 0 .. 7 : \A i \in DOMAIN image :
                /\ image[i] \in {0, 1} =>
                      candidates[m][i] =
                          (IF CanonicalMask(m, Row(i, size), Col(i, size))
                           THEN 1 - image[i] ELSE image[i])
                /\ image[i] \in {10, 11} => candidates[m][i] = image[i] - 10
                /\ (image[i] = 2 /\ pc = "masking") => candidates[m][i] = 2
                /\ image[i] \in {0, 1, 2, 10, 11})
    /\ [][(Placed \/ Masked) => image' = image]_vars

\* masked copies in which masks 0 and 1 differ at a dark data cell, next to a
\* reserved dark cell and a format cell
C11_Witness ==
    /\ pc = "masking"
    /\ \E i \in DOMAIN image :
          image[i] = 1 /\ candidates[0][i] = 0 /\ candidates[1][i] = 1
    /\ \E i \in DOMAIN image :
          image[i] = 11 /\ \A m \in 0 .. 7 : candidates[m][i] = 1
    /\ \E i \in DOMAIN image : image[i] = 2

\* the grid of 3 holding the three finder patterns, as the separator step finds it
Finders(img, sz) ==
    CreateFinderPattern(
        CreateFinderPattern(CreateFinderPattern(img, 0, 0, sz), sz - 7, 0, sz),
        0, sz - 7, sz)

FinderGrid1 == Finders(Filled(3, GridSize(1)), GridSize(1))
FinderGrid2 == Finders(Filled(3, GridSize(2)), GridSize(2))
FinderGrid(ver) == IF ver = 1 THEN FinderGrid1 ELSE FinderGrid2

\* the grid after the loop that inserts separators and format areas
ZonedGrid1 == SeparatorsAndFormat(FinderGrid1, 0, GridSize(1))
ZonedGrid2 == SeparatorsAndFormat(FinderGrid2, 0, GridSize(2))
ZonedGrid(ver) == IF ver = 1 THEN ZonedGrid1 ELSE ZonedGrid2

\* cell i has a horizontal, vertical or diagonal neighbour holding v in img
Touches(img, i, v, sz) ==
    \E dr \in {-1, 0, 1}, dc \in {-1, 0, 1} :
        /\ ~(dr = 0 /\ dc = 0)
        /\ InGrid(Row(i, sz) + dr, Col(i, sz) + dc, sz)
        /\ At(img, Row(i, sz) + dr, Col(i, sz) + dc, sz) = v

\* the top-left corners (row, column) of the three finder patterns
FinderCorners(sz) == {<<0, 0>>, <<sz - 7, 0>>, <<0, sz - 7>>}

InSquare(i, corner, margin, sz) ==
    /\ Row(i, sz) >= corner[1] - margin /\ Row(i, sz) < corner[1] + 7 + margin
    /\ Col(i, sz) >= corner[2] - margin /\ Col(i, sz) < corner[2] + 7 + margin

\* the in-grid cells around a finder pattern
Band(corner, sz) ==
    {i \in 0 .. sz * sz - 1 : InSquare(i, corner, 1, sz) /\ ~InSquare(i, corner, 0, sz)}

\* the separator step on the grid of version ver
SeparatorsRight(ver) ==
    LET sz == GridSize(ver)
        before == FinderGrid(ver)
        after == ZonedGrid(ver)
    IN  /\ \A i \in 0 .. sz * sz - 1 :
              IF before[i] = 3 /\ Touches(before, i, 11, sz)
              THEN after[i] = 10
              ELSE \/ after[i] = before[i]
                   \/ before[i] = 3 /\ after[i] = 2
                         /\ InFormatArea(Row(i, sz), Col(i, sz), sz)
        /\ \A corner \in FinderCorners(sz) :
              /\ Cardinality(Band(corner, sz)) = 15
              /\ \A i \in Band(corner, sz) : before[i] = 3 /\ after[i] = 10

SeparatorsRight1 == SeparatorsRight(1)
SeparatorsRight2 == SeparatorsRight(2)

\* C12: after the separator step on the grid holding the three finder
\* patterns, every in-grid cell that has a horizontal, vertical or diagonal
\* neighbour in a dark finder cell and was uninitialised is reserved light
\* (10), and the step changes no other cell; each finder pattern is bordered
\* on its in-grid sides by a complete band of 15 cells holding 10, and in the
\* finished reserved grid no uninitialised cell touches a finder pattern.
C12_Separators ==
    (pc = "place" /\ bit_index = 0) =>
        /\ IF version = 1 THEN SeparatorsRight1 ELSE SeparatorsRight2
        /\ \A corner \in FinderCorners(size) :
              \A i \in Band(corner, size) : image[i] = 10
        /\ \A i \in DOMAIN image :
              image[i] = 3 =>
                  \A corner \in FinderCorners(size) : ~InSquare(i, corner, 1, size)

\* the version-2 grid as the placement loop finds it: the corner cell between
\* the top-left finder pattern and the format areas holds 10, as does the cell
\* above the left edge of the bottom-left finder pattern, and data cells remain
C12_Witness ==
    /\ pc = "place"
    /\ bit_index = 0
    /\ version = 2
    /\ FinderGrid2[7 * size + 7] = 3
    /\ image[7 * size + 7] = 10
    /\ image[(size - 8) * size] = 10
    /\ image[size * size - 1] = 3

\* bit b (from 0, most significant bit of each byte first) of a byte string
BitOf(bytes, b) == (bytes[(b \div 8) + 1] \div (2 ^ (7 - (b % 8)))) % 2

\* bit b of the stream: mode indicator 0100, the length as 8 bits, the message
\* bytes in order, four 0 bits
StreamBit(msg, b) ==
    IF b < 4 THEN <<0, 1, 0, 0>>[b + 1]
    ELSE IF b < 12 THEN (Len(msg) \div (2 ^ (11 - b))) % 2
    ELSE IF b < 12 + 8 * Len(msg) THEN BitOf(msg, b - 12)
    ELSE 0

\* the byte read from the packed data at nibble offset 1 + 2 * k
UnpackedByte(packed, k) == (packed[k + 1] % 16) * 16 + (packed[k + 2] \div 16)

\* C13: for every accepted message of n bytes the first n + 2 data bytes, read
\* as a bit string, are 0100, the 8-bit length n, the n message bytes in order
\* and four 0 bits: packed[i] = ((src[i] & 0xF) << 4) | (src[i+1] >> 4) for
\* src = [4, n, message..], the last packed byte has a zero low nibble, and
\* unpacking gives back n and the message; the message "A" gives 0x40, 0x14,
\* 0x10.
C13_NibblePacking ==
    pc = "constructed" =>
        LET n == Len(input)
            src == <<4, n>> \o input
        IN  /\ Len(data) >= n + 2
            /\ \A b \in 0 .. 8 * (n + 2) - 1 : BitOf(data, b) = StreamBit(input, b)
            /\ \A i \in 1 .. n + 1 :
                  data[i] = ((src[i] % 16) * 16) + (src[i + 1] \div 16)
            /\ data[n + 2] = (src[n + 2] % 16) * 16
            /\ data[n + 2] % 16 = 0
            /\ data[1] \div 16 = 4
            /\ UnpackedByte(data, 0) = n
            /\ \A k \in 1 .. n : UnpackedByte(data, k) = input[k]
            /\ input = <<65>> => SubSeq(data, 1, 3) = <<64, 20, 16>>

\* a packed message of 16 bytes or more (the length fills both nibbles) with a
\* byte whose two nibbles differ and are not 0
C13_Witness ==
    /\ pc = "constructed"
    /\ Len(input) >= 16
    /\ data[1] = 65
    /\ \E k \in 1 .. Len(input) :
          /\ input[k] % 16 # 0
          /\ input[k] \div 16 # 0
          /\ input[k] % 16 # input[k] \div 16
          /\ UnpackedByte(data, k) = input[k]

Binary(img) == \A i \in DOMAIN img : img[i] \in {0, 1}

Formatted == pc \in {"formatted", "done", "saved", "saved_wrapped"}

\* C14: after mask_and_format every cell of each of the eight candidates, and
\* so of the final masked grid, is 0 or 1: none is 3, 2, 10 or 11.  The
\* reserved tags are reverted by the masking loop, which leaves 2 on row 8 and
\* column 8 only, and the format overlay fills every such cell.  Hence the sum
\* of cell values of penalty rule 4 is the number of dark modules, and the
\* renderer's 1 - value does not underflow.
C14_BinaryCells ==
    /\ pc = "masking" =>
          \A m \in 0 .. 7 : \A i \in DOMAIN candidates[m] :
              \/ candidates[m][i] \in {0, 1}
              \/ /\ candidates[m][i] = 2
                 /\ Row(i, size) = 8 \/ Col(i, size) = 8
    /\ Formatted => \A m \in 0 .. 7 : Binary(candidates[m])
    /\ pc = "formatted" =>
          \A m \in 0 .. 7 :
              DarkModules(candidates[m], size) =
                  Cardinality({i \in DOMAIN candidates[m] : candidates[m][i] = 1})
    /\ pc \in {"done", "saved", "saved_wrapped"} => Binary(masked)
    /\ pc # "saved_wrapped"
    /\ pc = "panic" => ~(version \in {1, 2})

\* a saved symbol whose cells in a format area, in a finder pattern and in the
\* data area are all 0 or 1, with both values present
C14_Witness ==
    /\ pc = "saved"
    /\ \E i \in DOMAIN image : image[i] = 2 /\ masked[i] = 1
    /\ \E i \in DOMAIN image : image[i] = 2 /\ masked[i] = 0
    /\ \E i \in DOMAIN image : image[i] = 11 /\ masked[i] = 1
    /\ \E i \in DOMAIN image : image[i] = 10 /\ masked[i] = 0
    /\ \E i \in DOMAIN image : image[i] \in {0, 1} /\ masked[i] # image[i]

====
